---- MODULE Spec2Model ----
(***************************************************************************)
(* Job portal: the User / Job / Application store, the Flask session, the  *)
(* GraphQL resolvers and the routes that call them, and the resume store   *)
(* (local upload folder and object storage).                               *)
(***************************************************************************)
EXTENDS Integers, Sequences, FiniteSets, TLC

\* ------------------------------------------------------------------ bounds
\* Largest primary key each table hands out: the wide bounds of the
\* specifications that follow one part of the program, the narrow ones of the
\* specification that runs every operation.
MaxUsers == 3
MaxJobs == 2
MaxApps == 2
FewUsers == 2
FewJobs == 1
FewApps == 1

VARIABLES
    users,          \* table user:        id -> [username, email, role]
    jobs,           \* table job:         id -> [poster_id, key]
    applications,   \* table application: id -> [job_id, applicant_id, status, resume_path]
    session,        \* the browser's Flask session: [user_id, role]; user_id 0: keys absent
    gcsObjects,     \* object names held by the bucket
    localFiles,     \* path suffixes present under UPLOAD_FOLDER
    config,         \* [ENABLE_GCS_UPLOAD, GCS_BUCKET_NAME], read at start-up
    last,           \* the last request and its response
    workers,        \* apply_job requests in flight: worker -> [pc, job_id, applicant_id, file]
    contact         \* the contact request being served: [pc, sends, flash]

vars == <<users, jobs, applications, session, gcsObjects, localFiles, config, last, workers,
          contact>>

\* ------------------------------------------------------------- vocabulary
Roles == {"job_seeker", "employer", "admin"}

\* Application.status as documented on the model.
ModelStatuses == {"applied", "pending", "reviewed", "rejected", "shortlisted", "hired"}

NoSession == [user_id |-> 0, role |-> "none"]

\* resume_path NULL
NoPath == <<>>

Max(S) == CHOOSE x \in S : \A y \in S : y <= x

\* INTEGER PRIMARY KEY of the tables: the next rowid is the largest one plus one.
NextId(table) == IF DOMAIN table = {} THEN 1 ELSE Max(DOMAIN table) + 1

\* A function with one more row / with some rows removed.
Insert(table, id, row) == [i \in DOMAIN table \cup {id} |-> IF i = id THEN row ELSE table[i]]
Remove(table, ids) == [i \in DOMAIN table \ ids |-> table[i]]

\* ------------------------------------------------------- resolver results
\* What a resolver leaves in the store and answers.  ret: the Application
\* ids a query hands to the caller.
Reply(res, u, j, a) == [res |-> res, users |-> u, jobs |-> j, applications |-> a, ret |-> {}]
Fail(res) == Reply(res, users, jobs, applications)
Rows(ids) == [res |-> "ok", users |-> users, jobs |-> jobs, applications |-> applications,
              ret |-> ids]

\* -------------------------------------------------------------- constraints
\* user.email unique
EmailUnique(u) == \A a, b \in DOMAIN u : u[a].email = u[b].email => a = b
\* uq_job_title_company_poster_location; key stands for (title, company, location)
JobUnique(j) ==
    \A a, b \in DOMAIN j : (j[a].key = j[b].key /\ j[a].poster_id = j[b].poster_id) => a = b
\* _job_applicant_uc
ApplicationUnique(a) ==
    \A x, y \in DOMAIN a :
        (a[x].job_id = a[y].job_id /\ a[x].applicant_id = a[y].applicant_id) => x = y

\* ORM cascade "all, delete-orphan" of Job.applications
JobApplicationIds(a, jobIds) == {i \in DOMAIN a : a[i].job_id \in jobIds}
\* ... of User.jobs_posted and User.applications
UserJobIds(j, uid) == {i \in DOMAIN j : j[i].poster_id = uid}
UserApplicationIds(a, uid) == {i \in DOMAIN a : a[i].applicant_id = uid}

\* ------------------------------------------------------------ user resolvers
\* resolve_create_user with the look-up of the email left out
create_user_unchecked(input) ==
    LET u == Insert(users, NextId(users),
                    [username |-> input.username, email |-> input.email,
                     role |-> input.role])
    IN  IF EmailUnique(u) THEN Reply("ok", u, jobs, applications)
        ELSE Fail("db_error")

resolve_create_user(input) ==
    IF \E i \in DOMAIN users : users[i].email = input.email
    THEN Fail("conflict")
    ELSE LET u == Insert(users, NextId(users),
                         [username |-> input.username, email |-> input.email,
                          role |-> input.role])
         IN  IF EmailUnique(u) THEN Reply("ok", u, jobs, applications)
             ELSE Fail("db_error")

\* The body of resolve_update_user on the request's database session.  store:
\* the committed table; view: the table as the session sees it, its pending
\* changes included.  The username is assigned before the email is looked up
\* and the return on a conflict neither commits nor rolls back, so the
\* assignment stays pending on the session.
update_user_in_session(store, view, id, input) ==
    IF id \notin DOMAIN view THEN [res |-> "not_found", store |-> store, view |-> view]
    ELSE LET named == [view EXCEPT ![id].username = input.username]
             full == [named EXCEPT ![id].email = input.email, ![id].role = input.role]
         IN  IF \E i \in DOMAIN named : named[i].email = input.email /\ i # id
             THEN [res |-> "conflict", store |-> store, view |-> named]
             ELSE IF EmailUnique(full)
             THEN [res |-> "ok", store |-> full, view |-> full]           \* commit
             ELSE [res |-> "db_error", store |-> store, view |-> store]   \* rollback

\* updateUser as the only mutation of its request: what is pending at the end
\* of the request is discarded with the session.
resolve_update_user(id, input) ==
    Reply(update_user_in_session(users, users, id, input).res,
          update_user_in_session(users, users, id, input).store, jobs, applications)

\* One GraphQL document with two updateUser mutations: the fields of a
\* mutation run one after the other on the same database session.
resolve_update_user_twice(id1, input1, id2, input2) ==
    LET r1 == update_user_in_session(users, users, id1, input1)
        r2 == update_user_in_session(r1.store, r1.view, id2, input2)
    IN  [first |-> r1.res, second |-> r2.res, users |-> r2.store]

\* resolve_delete_user with the relationships' cascade left out
delete_user_only(id) ==
    IF id \notin DOMAIN users THEN Fail("not_found")
    ELSE Reply("ok", Remove(users, {id}), jobs, applications)

resolve_delete_user(id) ==
    IF id \notin DOMAIN users THEN Fail("not_found")
    ELSE LET goneJobs == UserJobIds(jobs, id)
             goneApps == UserApplicationIds(applications, id)
                           \cup JobApplicationIds(applications, goneJobs)
         IN  Reply("ok", Remove(users, {id}), Remove(jobs, goneJobs),
                   Remove(applications, goneApps))

\* ------------------------------------------------------------- job resolvers
\* resolve_create_job on a table without uq_job_title_company_poster_location
create_job_unconstrained(sess, key) ==
    IF sess.user_id = 0 THEN Fail("unauthenticated")
    ELSE IF sess.user_id \notin DOMAIN users
            \/ users[sess.user_id].role \notin {"employer", "admin"}
    THEN Fail("forbidden_role")
    ELSE Reply("ok", users, Insert(jobs, NextId(jobs), [poster_id |-> sess.user_id, key |-> key]),
               applications)

resolve_create_job(sess, key) ==
    IF sess.user_id = 0 THEN Fail("unauthenticated")
    ELSE IF sess.user_id \notin DOMAIN users
            \/ users[sess.user_id].role \notin {"employer", "admin"}
    THEN Fail("forbidden_role")
    ELSE LET j == Insert(jobs, NextId(jobs), [poster_id |-> sess.user_id, key |-> key])
         IN  IF JobUnique(j) THEN Reply("ok", users, j, applications)
             ELSE Fail("db_error")

\* resolve_update_job with the check of the caller left out
update_job_unguarded(sess, id, key) ==
    IF sess.user_id = 0 THEN Fail("unauthenticated")
    ELSE IF id \notin DOMAIN jobs THEN Fail("not_found")
    ELSE LET j == [jobs EXCEPT ![id].key = key]
         IN  IF JobUnique(j) THEN Reply("ok", users, j, applications)
             ELSE Fail("db_error")

resolve_update_job(sess, id, key) ==
    IF sess.user_id = 0 THEN Fail("unauthenticated")
    ELSE IF id \notin DOMAIN jobs THEN Fail("not_found")
    ELSE IF sess.user_id \notin DOMAIN users
            \/ (users[sess.user_id].role # "admin" /\ jobs[id].poster_id # sess.user_id)
    THEN Fail("forbidden")
    ELSE LET j == [jobs EXCEPT ![id].key = key]
         IN  IF JobUnique(j) THEN Reply("ok", users, j, applications)
             ELSE Fail("db_error")

\* resolve_delete_job with the cascade of Job.applications left out
delete_job_only(sess, id) ==
    IF sess.user_id = 0 THEN Fail("unauthenticated")
    ELSE IF id \notin DOMAIN jobs THEN Fail("not_found")
    ELSE IF sess.user_id \notin DOMAIN users
            \/ (users[sess.user_id].role # "admin" /\ jobs[id].poster_id # sess.user_id)
    THEN Fail("forbidden")
    ELSE Reply("ok", users, Remove(jobs, {id}), applications)

resolve_delete_job(sess, id) ==
    IF sess.user_id = 0 THEN Fail("unauthenticated")
    ELSE IF id \notin DOMAIN jobs THEN Fail("not_found")
    ELSE IF sess.user_id \notin DOMAIN users
            \/ (users[sess.user_id].role # "admin" /\ jobs[id].poster_id # sess.user_id)
    THEN Fail("forbidden")
    ELSE Reply("ok", users, Remove(jobs, {id}),
               Remove(applications, JobApplicationIds(applications, {id})))

\* ----------------------------------------------------- application resolvers
\* application(id): db.session.get(Application, id)
resolve_application(id) ==
    IF id \in DOMAIN applications THEN Rows({id}) ELSE Rows({})

resolve_applications(sess) ==
    IF sess.user_id = 0 THEN Rows({})
    ELSE IF sess.user_id \notin DOMAIN users \/ users[sess.user_id].role # "admin"
    THEN Rows({})
    ELSE Rows(DOMAIN applications)

resolve_my_applications(sess) ==
    IF sess.user_id = 0 THEN Rows({})
    ELSE Rows(UserApplicationIds(applications, sess.user_id))

resolve_job_applications(sess, jobId) ==
    IF sess.user_id = 0 THEN Rows({})
    ELSE IF jobId \notin DOMAIN jobs THEN Rows({})
    ELSE IF sess.user_id \notin DOMAIN users
            \/ (users[sess.user_id].role # "admin" /\ jobs[jobId].poster_id # sess.user_id)
    THEN Rows({})
    ELSE Rows(JobApplicationIds(applications, {jobId}))

\* resolve_create_application without the look-up of an existing application
create_application_unchecked(sess, jobId, resumePath) ==
    IF sess.user_id = 0 THEN Fail("unauthenticated")
    ELSE IF sess.user_id \notin DOMAIN users \/ users[sess.user_id].role # "job_seeker"
    THEN Fail("forbidden_role")
    ELSE IF jobId \notin DOMAIN jobs THEN Fail("not_found")
    ELSE LET a == Insert(applications, NextId(applications),
                         [job_id |-> jobId, applicant_id |-> sess.user_id,
                          status |-> "applied", resume_path |-> resumePath])
         IN  IF ApplicationUnique(a) THEN Reply("ok", users, jobs, a)
             ELSE Fail("db_error")

resolve_create_application(sess, jobId, resumePath) ==
    IF sess.user_id = 0 THEN Fail("unauthenticated")
    ELSE IF sess.user_id \notin DOMAIN users \/ users[sess.user_id].role # "job_seeker"
    THEN Fail("forbidden_role")
    ELSE IF jobId \notin DOMAIN jobs THEN Fail("not_found")
    ELSE IF \E i \in DOMAIN applications :
                /\ applications[i].job_id = jobId
                /\ applications[i].applicant_id = sess.user_id
    THEN Fail("conflict")
    ELSE LET a == Insert(applications, NextId(applications),
                         [job_id |-> jobId, applicant_id |-> sess.user_id,
                          status |-> "applied", resume_path |-> resumePath])
         IN  IF ApplicationUnique(a) THEN Reply("ok", users, jobs, a)
             ELSE Fail("db_error")

\* valid_statuses of the resolver
ResolverStatuses == {"applied", "pending", "reviewed", "rejected", "shortlisted", "hired"}

\* resolve_update_application_status with the validation of the status left out
update_application_status_unvalidated(sess, id, status) ==
    IF sess.user_id = 0 THEN Fail("unauthenticated")
    ELSE IF id \notin DOMAIN applications THEN Fail("not_found")
    ELSE IF sess.user_id \notin DOMAIN users THEN Fail("forbidden")
    ELSE IF users[sess.user_id].role # "admin"
            /\ applications[id].job_id \notin DOMAIN jobs
    THEN Fail("db_error")
    ELSE IF users[sess.user_id].role # "admin"
            /\ jobs[applications[id].job_id].poster_id # sess.user_id
    THEN Fail("forbidden")
    ELSE Reply("ok", users, jobs, [applications EXCEPT ![id].status = status])

resolve_update_application_status(sess, id, status) ==
    IF sess.user_id = 0 THEN Fail("unauthenticated")
    ELSE IF id \notin DOMAIN applications THEN Fail("not_found")
    ELSE IF sess.user_id \notin DOMAIN users THEN Fail("forbidden")
    ELSE IF users[sess.user_id].role # "admin"
            /\ applications[id].job_id \notin DOMAIN jobs
    THEN Fail("db_error")          \* job is None: AttributeError, caught, rollback
    ELSE IF users[sess.user_id].role # "admin"
            /\ jobs[applications[id].job_id].poster_id # sess.user_id
    THEN Fail("forbidden")
    ELSE IF status \notin ResolverStatuses THEN Fail("invalid_status")
    ELSE Reply("ok", users, jobs, [applications EXCEPT ![id].status = status])

\* resolve_delete_application with the check of the caller left out
delete_application_unguarded(sess, id) ==
    IF sess.user_id = 0 THEN Fail("unauthenticated")
    ELSE IF id \notin DOMAIN applications THEN Fail("not_found")
    ELSE IF sess.user_id \notin DOMAIN users THEN Fail("not_found")
    ELSE Reply("ok", users, jobs, Remove(applications, {id}))

resolve_delete_application(sess, id) ==
    IF sess.user_id = 0 THEN Fail("unauthenticated")
    ELSE IF id \notin DOMAIN applications THEN Fail("not_found")
    ELSE IF sess.user_id \notin DOMAIN users THEN Fail("not_found")
    ELSE IF users[sess.user_id].role # "admin"
            /\ applications[id].applicant_id # sess.user_id
            /\ applications[id].job_id \notin DOMAIN jobs
    THEN Fail("db_error")
    ELSE IF users[sess.user_id].role # "admin"
            /\ applications[id].applicant_id # sess.user_id
            /\ jobs[applications[id].job_id].poster_id # sess.user_id
    THEN Fail("forbidden")
    ELSE Reply("ok", users, jobs, Remove(applications, {id}))

\* ------------------------------------------------------------ resume storage
\* ALLOWED_RESUME_EXTENSIONS
AllowedResumeExtensions == {"pdf", "doc", "docx"}

\* An uploaded file: its client-side name as [stem, ext]; NoFile: no file part.
NoFile == [stem |-> "", ext |-> ""]

\* allowed_file: the text after the last dot, lower-cased, is in the allow-list
Lower(ext) == CASE ext = "PDF" -> "pdf" [] OTHER -> ext
allowed_file(file, allowed) == file.ext # "" /\ Lower(file.ext) \in allowed

\* werkzeug secure_filename: blanks become underscores, path separators go
SecureStem(stem) ==
    CASE stem = "my cv" -> "my_cv"
      [] stem = "../cv" -> "cv"
      [] OTHER -> stem
secure_filename(file) == [stem |-> SecureStem(file.stem), ext |-> file.ext]

\* f"resumes/{user_id}/{filename}"
GcsObjectName(user_id, file) == <<"resumes", user_id, secure_filename(file)>>

\* the object name stored as it is
keep_prefix(name) == name

\* str.removeprefix('resumes/')
removeprefix(name) == IF Len(name) > 0 /\ Head(name) = "resumes" THEN Tail(name) ELSE name

\* HasBucket that looks at the switch alone
SwitchedOn(cfg) == cfg.ENABLE_GCS_UPLOAD

\* enable_gcs and gcs_bucket_name
HasBucket(cfg) == cfg.ENABLE_GCS_UPLOAD /\ cfg.GCS_BUCKET_NAME # ""

\* upload_to_gcs that calls the client once more after it failed
upload_to_gcs_retried(file, user_id, bucket, throws) ==
    IF file = NoFile \/ bucket = "" THEN [name |-> NoPath, objects |-> gcsObjects]
    ELSE IF ~allowed_file(file, AllowedResumeExtensions)
    THEN [name |-> NoPath, objects |-> gcsObjects]
    ELSE [name |-> GcsObjectName(user_id, file),
          objects |-> gcsObjects \cup {GcsObjectName(user_id, file)}]

\* upload_to_gcs: the object name written, or NoPath (None); throws: the client fails
upload_to_gcs(file, user_id, bucket, throws) ==
    IF file = NoFile \/ bucket = "" THEN [name |-> NoPath, objects |-> gcsObjects]
    ELSE IF ~allowed_file(file, AllowedResumeExtensions)
    THEN [name |-> NoPath, objects |-> gcsObjects]
    ELSE IF throws THEN [name |-> NoPath, objects |-> gcsObjects]
    ELSE [name |-> GcsObjectName(user_id, file),
          objects |-> gcsObjects \cup {GcsObjectName(user_id, file)}]

\* --------------------------------------------------------------- decorators
\* login_required: 'user_id' in session
login_required(sess) == sess.user_id # 0
\* role_required(*roles): session['role'] in roles
role_required(sess, roles) == sess.role \in roles

\* valid_statuses of the admin and employer update routes
RouteStatuses == {"pending", "reviewed", "rejected", "shortlisted", "hired"}

\* ------------------------------------------------------------- auth routes
\* register: the form offers job_seeker and employer only
register(sess, input) ==
    IF sess.user_id # 0 THEN Fail("already_logged_in")
    ELSE IF input.role \notin {"job_seeker", "employer"} THEN Fail("invalid_form")
    ELSE resolve_create_user(input)

\* profile: the signed-in user edits username and email, the role is kept
profile(sess, username, email) ==
    IF ~login_required(sess) THEN Fail("login_redirect")
    ELSE IF sess.user_id \notin DOMAIN users THEN Fail("404")
    ELSE IF username # users[sess.user_id].username
            /\ \E i \in DOMAIN users : users[i].username = username /\ i # sess.user_id
    THEN Fail("conflict")
    ELSE IF email # users[sess.user_id].email
            /\ \E i \in DOMAIN users : users[i].email = email /\ i # sess.user_id
    THEN Fail("conflict")
    ELSE resolve_update_user(sess.user_id,
             [username |-> username, email |-> email, role |-> users[sess.user_id].role])

\* profile in two parts, as two requests served at once run it: the checks
\* read the tables, resolve_update_user writes them later.  The checks
\* answer the submitted form with "valid" and the role read with the user.
profile_checks(sess, username, email) ==
    IF ~login_required(sess) THEN "login_redirect"
    ELSE IF sess.user_id \notin DOMAIN users THEN "404"
    ELSE IF username # users[sess.user_id].username
            /\ \E i \in DOMAIN users : users[i].username = username /\ i # sess.user_id
    THEN "conflict"
    ELSE IF email # users[sess.user_id].email
            /\ \E i \in DOMAIN users : users[i].email = email /\ i # sess.user_id
    THEN "conflict"
    ELSE "valid"

profile_submit(user_id, input) == resolve_update_user(user_id, input)

\* ------------------------------------------------------------ admin routes
admin_new_user(sess, input) ==
    IF ~login_required(sess) THEN Fail("login_redirect")
    ELSE IF ~role_required(sess, {"admin"}) THEN Fail("forbidden_role")
    ELSE IF \E i \in DOMAIN users : users[i].email = input.email THEN Fail("conflict")
    ELSE resolve_create_user(input)

admin_edit_user(sess, user_id, input) ==
    IF ~login_required(sess) THEN Fail("login_redirect")
    ELSE IF ~role_required(sess, {"admin"}) THEN Fail("forbidden_role")
    ELSE IF user_id \notin DOMAIN users THEN Fail("404")
    ELSE IF \E i \in DOMAIN users : users[i].email = input.email /\ i # user_id
    THEN Fail("conflict")
    ELSE resolve_update_user(user_id, input)

admin_delete_user(sess, user_id) ==
    IF ~login_required(sess) THEN Fail("login_redirect")
    ELSE IF ~role_required(sess, {"admin"}) THEN Fail("forbidden_role")
    ELSE IF user_id \notin DOMAIN users THEN Fail("404")
    ELSE IF user_id = sess.user_id THEN Fail("invalid_operation")
    ELSE resolve_delete_user(user_id)

admin_create_job(sess, key) ==
    IF ~login_required(sess) THEN Fail("login_redirect")
    ELSE IF ~role_required(sess, {"admin"}) THEN Fail("forbidden_role")
    ELSE resolve_create_job(sess, key)

admin_edit_job(sess, job_id, key) ==
    IF ~login_required(sess) THEN Fail("login_redirect")
    ELSE IF ~role_required(sess, {"admin"}) THEN Fail("forbidden_role")
    ELSE IF job_id \notin DOMAIN jobs THEN Fail("404")
    ELSE resolve_update_job(sess, job_id, key)

admin_delete_job(sess, job_id) ==
    IF ~login_required(sess) THEN Fail("login_redirect")
    ELSE IF ~role_required(sess, {"admin"}) THEN Fail("forbidden_role")
    ELSE IF job_id \notin DOMAIN jobs THEN Fail("404")
    ELSE resolve_delete_job(sess, job_id)

admin_applications(sess) ==
    IF ~login_required(sess) THEN Fail("login_redirect")
    ELSE IF ~role_required(sess, {"admin"}) THEN Fail("forbidden_role")
    ELSE resolve_applications(sess)

admin_update_application(sess, application_id, new_status) ==
    IF ~login_required(sess) THEN Fail("login_redirect")
    ELSE IF ~role_required(sess, {"admin"}) THEN Fail("forbidden_role")
    ELSE IF application_id \notin DOMAIN applications THEN Fail("404")
    ELSE IF new_status \notin RouteStatuses THEN Fail("invalid_status")
    ELSE resolve_update_application_status(sess, application_id, new_status)

\* --------------------------------------------------------- employer routes
new_job(sess, key) ==
    IF ~login_required(sess) THEN Fail("login_redirect")
    ELSE IF ~role_required(sess, {"employer", "admin"}) THEN Fail("forbidden_role")
    ELSE resolve_create_job(sess, key)

job_applications(sess, job_id) ==
    IF ~login_required(sess) THEN Fail("login_redirect")
    ELSE IF ~role_required(sess, {"employer", "admin"}) THEN Fail("forbidden_role")
    ELSE IF job_id \notin DOMAIN jobs THEN Fail("404")
    ELSE IF sess.role # "admin" /\ jobs[job_id].poster_id # sess.user_id
    THEN Fail("forbidden")
    ELSE resolve_job_applications(sess, job_id)

delete_job(sess, job_id) ==
    IF ~login_required(sess) THEN Fail("login_redirect")
    ELSE IF ~role_required(sess, {"employer", "admin"}) THEN Fail("forbidden_role")
    ELSE IF job_id \notin DOMAIN jobs THEN Fail("404")
    ELSE IF sess.role # "admin" /\ jobs[job_id].poster_id # sess.user_id
    THEN Fail("forbidden")
    ELSE resolve_delete_job(sess, job_id)

update_application(sess, application_id, new_status) ==
    IF ~login_required(sess) THEN Fail("login_redirect")
    ELSE IF ~role_required(sess, {"employer", "admin"}) THEN Fail("forbidden_role")
    ELSE IF application_id \notin DOMAIN applications THEN Fail("404")
    ELSE IF applications[application_id].job_id \notin DOMAIN jobs THEN Fail("404")
    ELSE IF sess.role # "admin"
            /\ jobs[applications[application_id].job_id].poster_id # sess.user_id
    THEN Fail("forbidden")
    ELSE IF new_status \notin RouteStatuses THEN Fail("invalid_status")
    ELSE resolve_update_application_status(sess, application_id, new_status)

\* -------------------------------------------------------- job seeker routes
my_applications(sess) ==
    IF ~login_required(sess) THEN Fail("login_redirect")
    ELSE IF ~role_required(sess, {"job_seeker"}) THEN Fail("forbidden_role")
    ELSE resolve_my_applications(sess)

\* apply_job (POST): what is stored, what the bucket holds afterwards
Applied(res, a, objects) == [res |-> res, applications |-> a, objects |-> objects]

\* apply_job up to form.validate_on_submit(): the decorators, the look-up of
\* the job, the look-up of an existing application and the form's validators.
apply_job_checks(sess, job_id, file) ==
    IF ~login_required(sess) THEN "login_redirect"
    ELSE IF ~role_required(sess, {"job_seeker"}) THEN "forbidden_role"
    ELSE IF job_id \notin DOMAIN jobs THEN "404"
    ELSE IF \E i \in DOMAIN applications :
                /\ applications[i].job_id = job_id
                /\ applications[i].applicant_id = sess.user_id
    THEN "conflict"
    \* ApplicationForm: FileRequired, FileAllowed(pdf, doc, docx)
    ELSE IF file = NoFile \/ ~allowed_file(file, AllowedResumeExtensions)
    THEN "invalid_form"
    ELSE "valid"

\* apply_job_submit on a table without _job_applicant_uc
apply_job_submit_unconstrained(user_id, job_id, file, throws) ==
    LET up == IF HasBucket(config)
              THEN upload_to_gcs(file, user_id, config.GCS_BUCKET_NAME, throws)
              ELSE [name |-> NoPath, objects |-> gcsObjects]
        a == Insert(applications, NextId(applications),
                    [job_id |-> job_id, applicant_id |-> user_id,
                     status |-> "applied", resume_path |-> removeprefix(up.name)])
    IN  IF HasBucket(config) /\ up.name = NoPath
        THEN Applied("upload_failed", applications, up.objects)
        ELSE Applied("ok", a, up.objects)

\* apply_job from the upload of the resume to the commit of the Application
apply_job_submit(user_id, job_id, file, throws) ==
    LET up == IF HasBucket(config)
              THEN upload_to_gcs(file, user_id, config.GCS_BUCKET_NAME, throws)
              ELSE [name |-> NoPath, objects |-> gcsObjects]
        a == Insert(applications, NextId(applications),
                    [job_id |-> job_id, applicant_id |-> user_id,
                     status |-> "applied", resume_path |-> removeprefix(up.name)])
    IN  IF HasBucket(config) /\ up.name = NoPath
        THEN Applied("upload_failed", applications, up.objects)
        ELSE IF ApplicationUnique(a) THEN Applied("ok", a, up.objects)
        ELSE Applied("db_error", applications, up.objects)

\* apply_job served without another request in between
apply_job(sess, job_id, file, throws) ==
    IF apply_job_checks(sess, job_id, file) # "valid"
    THEN Applied(apply_job_checks(sess, job_id, file), applications, gcsObjects)
    ELSE apply_job_submit(sess.user_id, job_id, file, throws)

\* ------------------------------------------------------------- serve_resume
Min(S) == CHOOSE x \in S : \A y \in S : x <= y

\* Application.query.filter_by(resume_path=cs_suffix).first(): the table is
\* scanned in rowid order; 0: no row
FirstByResumePath(cs_suffix) ==
    LET hits == {i \in DOMAIN applications : applications[i].resume_path = cs_suffix}
    IN  IF hits = {} THEN 0 ELSE Min(hits)

\* The permission checks of serve_resume on the row found, by the session's role
ResumeAccess(sess, app) ==
    IF sess.role = "admin" THEN TRUE
    ELSE IF sess.role = "employer"
    THEN app.job_id \in DOMAIN jobs /\ jobs[app.job_id].poster_id = sess.user_id
    ELSE sess.user_id = app.applicant_id

Served(res, io) == [res |-> res, io |-> io]

\* f"resumes/{cs_suffix}"
ServedObjectName(cs_suffix) == <<"resumes">> \o cs_suffix

\* serve_resume that looks into the upload folder before it looks the
\* Application up
serve_resume_storage_first(sess, cs_suffix, local_throws, gcs_throws) ==
    IF ~login_required(sess) THEN Served("login_redirect", "none")
    ELSE IF cs_suffix \in localFiles /\ ~local_throws THEN Served("200", "local")
    ELSE IF FirstByResumePath(cs_suffix) = 0 THEN Served("404", "none")
    ELSE IF ~ResumeAccess(sess, applications[FirstByResumePath(cs_suffix)])
    THEN Served("403", "none")
    ELSE IF ~HasBucket(config) THEN Served("404", "local")
    ELSE IF gcs_throws THEN Served("500", "gcs")
    ELSE IF ServedObjectName(cs_suffix) \notin gcsObjects THEN Served("500", "gcs")
    ELSE Served("200", "gcs")

\* local_throws: send_file of the local path fails; gcs_throws: the storage
\* client fails.  io: which store answered
serve_resume(sess, cs_suffix, local_throws, gcs_throws) ==
    IF ~login_required(sess) THEN Served("login_redirect", "none")
    ELSE IF FirstByResumePath(cs_suffix) = 0 THEN Served("404", "none")
    ELSE IF ~ResumeAccess(sess, applications[FirstByResumePath(cs_suffix)])
    THEN Served("403", "none")
    ELSE IF cs_suffix \in localFiles /\ ~local_throws THEN Served("200", "local")
    ELSE IF ~HasBucket(config) THEN Served("404", "local")
    ELSE IF gcs_throws THEN Served("500", "gcs")
    \* abort(404) is raised inside the try block and caught by except Exception
    ELSE IF ServedObjectName(cs_suffix) \notin gcsObjects THEN Served("500", "gcs")
    ELSE Served("200", "gcs")

\* ------------------------------------------------------------ main routes
\* contact: the retry loop around mail.send
max_retries == 3

\* No contact request is being served.  sends: the outcome of each call of
\* mail.send so far (TRUE: it returned, FALSE: it raised); flash: the
\* message category flashed
NoContact == [pc |-> "idle", sends |-> <<>>, flash |-> "none"]

\* One pass of the loop that goes on after a successful send
contact_attempt_without_break(c, sent) ==
    IF ~sent /\ Len(c.sends) + 1 = max_retries
    THEN [pc |-> "redirect", sends |-> Append(c.sends, sent), flash |-> "danger"]
    ELSE IF Len(c.sends) + 1 = max_retries
    THEN [pc |-> "redirect", sends |-> Append(c.sends, sent), flash |-> "success"]
    ELSE [pc |-> "loop", sends |-> Append(c.sends, sent),
          flash |-> IF sent THEN "success" ELSE c.flash]

\* One pass of the loop: mail.send returns (flash success, break) or raises
\* (flash danger after the last attempt, else sleep and go on)
contact_attempt(c, sent) ==
    IF sent THEN [pc |-> "redirect", sends |-> Append(c.sends, sent), flash |-> "success"]
    ELSE IF Len(c.sends) + 1 = max_retries
    THEN [pc |-> "redirect", sends |-> Append(c.sends, sent), flash |-> "danger"]
    ELSE [pc |-> "loop", sends |-> Append(c.sends, sent), flash |-> c.flash]

\* ------------------------------------------------------------------ actions
\* last: the request (op, target, status, path, the faults injected), its
\* response (res, ret, io) and the rows it removed (gone)
NothingGone == [jobs |-> {}, applications |-> {}]

\* No user input submitted with the request
NoInput == [username |-> "", email |-> "", role |-> ""]

Request(op, target, status, path, res, ret, io) ==
    [op |-> op, target |-> target, status |-> status, path |-> path, input |-> NoInput,
     key |-> "", file |-> NoFile, more |-> <<>>, res |-> res, ret |-> ret, io |-> io, fault |-> {}, gone |-> NothingGone]

\* The record of a request answered by resolver or route result r
Answered(op, target, status, r) ==
    [Request(op, target, status, NoPath, r.res, r.ret, "none") EXCEPT
        !.gone = [jobs |-> DOMAIN jobs \ DOMAIN r.jobs,
                  applications |-> DOMAIN applications \ DOMAIN r.applications]]

\* A request answered by resolver or route result r
Answer(op, target, status, r) ==
    /\ users' = r.users
    /\ jobs' = r.jobs
    /\ applications' = r.applications
    /\ last' = Answered(op, target, status, r)
    /\ UNCHANGED <<session, gcsObjects, localFiles, config, workers, contact>>

\* A request that submits user fields (UserInput, the user forms)
AnswerUser(op, target, input, r) ==
    /\ users' = r.users
    /\ jobs' = r.jobs
    /\ applications' = r.applications
    /\ last' = [Answered(op, target, "", r) EXCEPT !.input = input]
    /\ UNCHANGED <<session, gcsObjects, localFiles, config, workers, contact>>

\* A request that submits job fields (JobInput, the job form)
AnswerJob(op, target, key, r) ==
    /\ users' = r.users
    /\ jobs' = r.jobs
    /\ applications' = r.applications
    /\ last' = [Answered(op, target, "", r) EXCEPT !.key = key]
    /\ UNCHANGED <<session, gcsObjects, localFiles, config, workers, contact>>

\* The faults a request was run with
Faults(local_throws, gcs_throws) ==
    (IF local_throws THEN {"local"} ELSE {}) \cup (IF gcs_throws THEN {"gcs"} ELSE {})

\* The model stops handing out keys past its bounds
RoomFor(table, max, r) == (r.res = "ok") => (NextId(table) <= max)

\* --- session
Login(uid) ==
    /\ session.user_id = 0
    /\ uid \in DOMAIN users
    /\ session' = [user_id |-> uid, role |-> users[uid].role]
    /\ last' = Request("login", uid, "", NoPath, "ok", {}, "none")
    /\ UNCHANGED <<users, jobs, applications, gcsObjects, localFiles, config, workers, contact>>

Logout ==
    /\ session.user_id # 0
    /\ session' = NoSession
    /\ last' = Request("logout", 0, "", NoPath, "ok", {}, "none")
    /\ UNCHANGED <<users, jobs, applications, gcsObjects, localFiles, config, workers, contact>>

\* --- GraphQL mutations and queries, POST /graphql
CreateUser(max, input) ==
    /\ RoomFor(users, max, resolve_create_user(input))
    /\ AnswerUser("createUser", 0, input, resolve_create_user(input))

UpdateUser(id, input) == AnswerUser("updateUser", id, input, resolve_update_user(id, input))

\* more: the second mutation of the document and its result
UpdateUserTwice(id1, input1, id2, input2) ==
    /\ users' = resolve_update_user_twice(id1, input1, id2, input2).users
    /\ last' = [Request("updateUser", id1, "", NoPath,
                         resolve_update_user_twice(id1, input1, id2, input2).first,
                         {}, "none") EXCEPT
                   !.input = input1,
                   !.more = <<[op |-> "updateUser", target |-> id2, input |-> input2,
                               res |-> resolve_update_user_twice(id1, input1, id2, input2).second]>>]
    /\ UNCHANGED <<jobs, applications, session, gcsObjects, localFiles, config, workers, contact>>

DeleteUser(id) == Answer("deleteUser", id, "", resolve_delete_user(id))

CreateJob(max, key) ==
    /\ RoomFor(jobs, max, resolve_create_job(session, key))
    /\ AnswerJob("createJob", 0, key, resolve_create_job(session, key))

UpdateJob(id, key) == AnswerJob("updateJob", id, key, resolve_update_job(session, id, key))

DeleteJob(id) == Answer("deleteJob", id, "", resolve_delete_job(session, id))

CreateApplication(max, jobId, resumePath) ==
    /\ RoomFor(applications, max, resolve_create_application(session, jobId, resumePath))
    /\ Answer("createApplication", jobId, "",
              resolve_create_application(session, jobId, resumePath))

UpdateApplicationStatus(id, status) ==
    Answer("updateApplicationStatus", id, status,
           resolve_update_application_status(session, id, status))

DeleteApplication(id) ==
    Answer("deleteApplication", id, "", resolve_delete_application(session, id))

QueryApplication(id) == Answer("application", id, "", resolve_application(id))

QueryJobApplications(jobId) ==
    Answer("jobApplications", jobId, "", resolve_job_applications(session, jobId))

\* --- routes
Register(max, input) ==
    /\ RoomFor(users, max, register(session, input))
    /\ AnswerUser("register", 0, input, register(session, input))

\* the profile form has no role field
Profile(username, email) ==
    AnswerUser("profile", session.user_id, [NoInput EXCEPT !.username = username, !.email = email],
               profile(session, username, email))

AdminNewUser(max, input) ==
    /\ RoomFor(users, max, admin_new_user(session, input))
    /\ AnswerUser("admin_new_user", 0, input, admin_new_user(session, input))

AdminEditUser(id, input) ==
    AnswerUser("admin_edit_user", id, input, admin_edit_user(session, id, input))

AdminDeleteUser(id) == Answer("admin_delete_user", id, "", admin_delete_user(session, id))

AdminCreateJob(max, key) ==
    /\ RoomFor(jobs, max, admin_create_job(session, key))
    /\ AnswerJob("admin_create_job", 0, key, admin_create_job(session, key))

AdminEditJob(id, key) == AnswerJob("admin_edit_job", id, key, admin_edit_job(session, id, key))

AdminDeleteJob(id) == Answer("admin_delete_job", id, "", admin_delete_job(session, id))

AdminApplications == Answer("admin_applications", 0, "", admin_applications(session))

AdminUpdateApplication(id, status) ==
    Answer("admin_update_application", id, status,
           admin_update_application(session, id, status))

NewJob(max, key) ==
    /\ RoomFor(jobs, max, new_job(session, key))
    /\ AnswerJob("new_job", 0, key, new_job(session, key))

JobApplications(id) == Answer("job_applications", id, "", job_applications(session, id))

EmployerDeleteJob(id) == Answer("delete_job", id, "", delete_job(session, id))

UpdateApplication(id, status) ==
    Answer("update_application", id, status, update_application(session, id, status))

MyApplications == Answer("my_applications", 0, "", my_applications(session))

ApplyJob(max, job_id, file, throws) ==
    LET r == apply_job(session, job_id, file, throws)
    IN  /\ (r.res = "ok") => (NextId(applications) <= max)
        /\ applications' = r.applications
        /\ gcsObjects' = r.objects
        /\ last' = [Request("apply_job", job_id, "", NoPath, r.res, {}, "none") EXCEPT
                       !.file = file, !.fault = Faults(FALSE, throws)]
        /\ UNCHANGED <<users, jobs, session, localFiles, config, workers, contact>>

\* apply_job served by a worker while another worker serves its own request:
\* first the checks, then, after any steps of the other worker, the rest.
Idle == [pc |-> "idle", job_id |-> 0, applicant_id |-> 0, file |-> NoFile,
         user_id |-> 0, input |-> NoInput]

ApplyJobChecks(w, job_id, file) ==
    /\ workers[w].pc = "idle"
    /\ workers' = IF apply_job_checks(session, job_id, file) = "valid"
                  THEN [workers EXCEPT ![w] = [Idle EXCEPT !.pc = "valid",
                                                            !.job_id = job_id,
                                                            !.applicant_id = session.user_id,
                                                            !.file = file]]
                  ELSE workers
    /\ last' = Request("apply_job_checks", job_id, "", NoPath,
                       apply_job_checks(session, job_id, file), {}, "none")
    /\ UNCHANGED <<users, jobs, applications, session, gcsObjects, localFiles, config, contact>>

ApplyJobSubmit(max, w, throws) ==
    LET r == apply_job_submit(workers[w].applicant_id, workers[w].job_id,
                              workers[w].file, throws)
    IN  /\ workers[w].pc = "valid"
        /\ (r.res = "ok") => (NextId(applications) <= max)
        /\ applications' = r.applications
        /\ gcsObjects' = r.objects
        /\ workers' = [workers EXCEPT ![w] = Idle]
        /\ last' = [Request("apply_job", workers[w].job_id, "", NoPath, r.res, {}, "none")
                       EXCEPT !.file = workers[w].file, !.fault = Faults(FALSE, throws)]
        /\ UNCHANGED <<users, jobs, session, localFiles, config, contact>>

\* --- profile served by two workers
ProfileChecks(w, username, email) ==
    /\ workers[w].pc = "idle"
    /\ workers' = IF profile_checks(session, username, email) = "valid"
                  THEN [workers EXCEPT ![w] =
                           [Idle EXCEPT !.pc = "profile",
                                        !.user_id = session.user_id,
                                        !.input = [username |-> username, email |-> email,
                                                   role |-> users[session.user_id].role]]]
                  ELSE workers
    /\ last' = [Request("profile_checks", session.user_id, "", NoPath,
                        profile_checks(session, username, email), {}, "none")
                   EXCEPT !.input = [NoInput EXCEPT !.username = username, !.email = email]]
    /\ UNCHANGED <<users, jobs, applications, session, gcsObjects, localFiles, config, contact>>

ProfileSubmit(w) ==
    LET r == profile_submit(workers[w].user_id, workers[w].input)
    IN  /\ workers[w].pc = "profile"
        /\ users' = r.users
        /\ jobs' = r.jobs
        /\ applications' = r.applications
        /\ workers' = [workers EXCEPT ![w] = Idle]
        /\ last' = [Answered("profile", workers[w].user_id, "", r)
                       EXCEPT !.input = workers[w].input]
        /\ UNCHANGED <<session, gcsObjects, localFiles, config, contact>>

ServeResume(cs_suffix, local_throws, gcs_throws) ==
    LET r == serve_resume(session, cs_suffix, local_throws, gcs_throws)
    IN  /\ last' = [Request("serve_resume", 0, "", cs_suffix, r.res, {}, r.io) EXCEPT
                       !.fault = Faults(local_throws, gcs_throws)]
        /\ UNCHANGED <<users, jobs, applications, session, gcsObjects, localFiles, config, workers, contact>>

\* --- contact, POST /contact with a valid form
ContactSubmit ==
    /\ contact.pc = "idle"
    /\ contact' = [NoContact EXCEPT !.pc = "loop"]
    /\ last' = Request("contact", 0, "", NoPath, "submitted", {}, "none")
    /\ UNCHANGED <<users, jobs, applications, session, gcsObjects, localFiles, config, workers>>

ContactAttempt(sent) ==
    /\ contact.pc = "loop"
    /\ contact' = contact_attempt(contact, sent)
    /\ UNCHANGED <<users, jobs, applications, session, gcsObjects, localFiles, config, last,
                   workers>>

\* return redirect(url_for('main.contact')): the response leaves the server
ContactRedirect ==
    /\ contact.pc = "redirect"
    /\ contact' = [contact EXCEPT !.pc = "idle"]
    /\ last' = Request("contact", 0, "", NoPath, contact.flash, {}, "none")
    /\ UNCHANGED <<users, jobs, applications, session, gcsObjects, localFiles, config, workers>>

\* ------------------------------------------------------------------ inputs
\* The people the forms and the GraphQL inputs describe
Ann == [username |-> "ann", email |-> "a@x", role |-> "job_seeker"]
Bob == [username |-> "bob", email |-> "b@x", role |-> "employer"]
Cat == [username |-> "cat", email |-> "c@x", role |-> "admin"]
Dan == [username |-> "dan", email |-> "d@x", role |-> "employer"]
Persons == {Ann, Bob, Cat}
JobKeys == {"k1"}
StatusInputs == {"applied", "reviewed", "bogus"}
CvPdf == [stem |-> "cv", ext |-> "pdf"]
\* UserInput whose username and email need not belong together
UserEdits == {[username |-> n, email |-> e, role |-> "employer"] :
                 n \in {Ann.username, Bob.username}, e \in {Ann.email, Bob.email}}
\* Two (title, company, location) tuples
TwoJobKeys == {"k1", "k2"}
\* The two requests of the race
Workers == {"w1", "w2"}
\* Resume files: a plain one, names that secure_filename rewrites, an upper
\* case extension, an extension that is not allowed
MyCvPDF == [stem |-> "my cv", ext |-> "PDF"]
UpCvDocx == [stem |-> "../cv", ext |-> "docx"]
CvExe == [stem |-> "cv", ext |-> "exe"]
ResumeFiles == {CvPdf, MyCvPDF, UpCvDocx, CvExe}
\* The path suffixes under which those files are stored
ResumeSuffixes == {<<u, secure_filename(f)>> : u \in 1 .. FewUsers, f \in ResumeFiles}
UserIds == 1 .. MaxUsers
JobIds == 1 .. MaxJobs
AppIds == 1 .. MaxApps
\* path suffixes a request can name: <user id>/<file name>
Suffixes == {<<u, secure_filename(CvPdf)>> : u \in UserIds}

\* --------------------------------------------------------------------- spec
\* The application after create_app() with the default configuration: empty
\* tables, no session, object storage switched off.
DefaultConfig == [ENABLE_GCS_UPLOAD |-> FALSE, GCS_BUCKET_NAME |-> ""]
GcsConfig == [ENABLE_GCS_UPLOAD |-> TRUE, GCS_BUCKET_NAME |-> "bucket"]
\* Every setting of the switch and of the bucket name
Configs == [ENABLE_GCS_UPLOAD : BOOLEAN, GCS_BUCKET_NAME : {"", "bucket"}]

Start(cfg, files) ==
    /\ users = << >>
    /\ jobs = << >>
    /\ applications = << >>
    /\ session = NoSession
    /\ gcsObjects = {}
    /\ localFiles = files
    /\ config = cfg
    /\ workers = [w \in Workers |-> Idle]
    /\ contact = NoContact
    /\ last = Request("start", 0, "", NoPath, "ok", {}, "none")

Init == Start(DefaultConfig, {})

\* Every operation, under the narrow bounds
Next ==
    \/ \E uid \in UserIds : Login(uid)
    \/ Logout
    \/ \E input \in Persons : CreateUser(FewUsers, input)
    \/ \E id \in UserIds, input \in Persons : UpdateUser(id, input)
    \/ \E id \in UserIds : DeleteUser(id)
    \/ \E key \in JobKeys : CreateJob(FewJobs, key)
    \/ \E id \in JobIds, key \in JobKeys : UpdateJob(id, key)
    \/ \E id \in JobIds : DeleteJob(id)
    \/ \E id \in JobIds : CreateApplication(FewApps, id, NoPath)
    \/ \E id \in AppIds, st \in StatusInputs : UpdateApplicationStatus(id, st)
    \/ \E id \in AppIds : DeleteApplication(id)
    \/ \E id \in AppIds : QueryApplication(id)
    \/ \E id \in JobIds : QueryJobApplications(id)
    \/ \E input \in Persons : Register(FewUsers, input)
    \/ Profile(Ann.username, Ann.email)
    \/ \E input \in Persons : AdminNewUser(FewUsers, input)
    \/ \E id \in UserIds, input \in Persons : AdminEditUser(id, input)
    \/ \E id \in UserIds : AdminDeleteUser(id)
    \/ \E key \in JobKeys : AdminCreateJob(FewJobs, key)
    \/ \E id \in JobIds, key \in JobKeys : AdminEditJob(id, key)
    \/ \E id \in JobIds : AdminDeleteJob(id)
    \/ AdminApplications
    \/ \E id \in AppIds, st \in StatusInputs : AdminUpdateApplication(id, st)
    \/ \E key \in JobKeys : NewJob(FewJobs, key)
    \/ \E id \in JobIds : JobApplications(id)
    \/ \E id \in JobIds : EmployerDeleteJob(id)
    \/ \E id \in AppIds, st \in StatusInputs : UpdateApplication(id, st)
    \/ MyApplications
    \/ \E id \in JobIds, f \in {CvPdf, NoFile} : ApplyJob(FewApps, id, f, FALSE)
    \/ \E p \in Suffixes : ServeResume(p, FALSE, FALSE)

Spec == Init /\ [][Next]_vars

\* ------------------------------------------------- the parts, wide bounds
\* Creating and deleting users, jobs and applications (the cascades)
NextCascade ==
    \/ \E uid \in UserIds : Login(uid)
    \/ Logout
    \/ \E input \in Persons : CreateUser(MaxUsers, input)
    \/ \E id \in UserIds : UpdateUser(id, Bob)
    \/ \E key \in JobKeys : CreateJob(MaxJobs, key)
    \/ \E id \in JobIds : CreateApplication(MaxApps, id, NoPath)
    \/ \E id \in JobIds : DeleteJob(id)
    \/ \E id \in UserIds : DeleteUser(id)
    \/ \E id \in UserIds : AdminDeleteUser(id)
    \/ \E id \in JobIds : AdminDeleteJob(id)
    \/ \E id \in JobIds : EmployerDeleteJob(id)

SpecCascade == Init /\ [][NextCascade]_vars

\* Applying to jobs, by the route and by the mutation, and reviewing
NextApply ==
    \/ \E uid \in UserIds : Login(uid)
    \/ Logout
    \/ \E input \in Persons : CreateUser(MaxUsers, input)
    \/ \E id \in UserIds : UpdateUser(id, Bob)
    \/ \E key \in JobKeys : CreateJob(MaxJobs, key)
    \/ \E id \in JobIds : CreateApplication(MaxApps, id, NoPath)
    \/ \E id \in JobIds, f \in {CvPdf, NoFile} : ApplyJob(MaxApps, id, f, FALSE)
    \/ \E id \in AppIds, st \in {"reviewed", "bogus"} : UpdateApplicationStatus(id, st)

SpecApply == Init /\ [][NextApply]_vars

\* Reading applications: a job seeker, the poster and a second employer
NextReads ==
    \/ \E uid \in UserIds : Login(uid)
    \/ Logout
    \/ \E input \in {Ann, Bob, Cat, Dan} : CreateUser(MaxUsers, input)
    \/ \E key \in JobKeys : CreateJob(MaxJobs, key)
    \/ \E id \in JobIds : CreateApplication(MaxApps, id, NoPath)
    \/ \E id \in AppIds : QueryApplication(id)
    \/ \E id \in JobIds : QueryJobApplications(id)
    \/ \E id \in JobIds : JobApplications(id)

SpecReads == Init /\ [][NextReads]_vars

\* Uploading and serving resumes with object storage switched on
InitResume == Start(GcsConfig, {})

NextResume ==
    \/ \E uid \in UserIds : Login(uid)
    \/ Logout
    \/ \E input \in {Ann, Bob, Cat, Dan} : CreateUser(MaxUsers, input)
    \/ \E key \in JobKeys : CreateJob(MaxJobs, key)
    \/ \E id \in JobIds, t \in BOOLEAN : ApplyJob(MaxApps, id, CvPdf, t)
    \/ \E p \in Suffixes : ServeResume(p, FALSE, FALSE)

SpecResume == InitResume /\ [][NextResume]_vars

\* Where serve_resume finds the file: either configuration, the upload
\* folder with or without a file left there
InitStorage ==
    \E cfg \in {DefaultConfig, GcsConfig}, files \in SUBSET {<<1, secure_filename(CvPdf)>>} :
        Start(cfg, files)

NextStorage ==
    \/ \E uid \in UserIds : Login(uid)
    \/ Logout
    \/ \E input \in {Ann, Bob} : CreateUser(FewUsers, input)
    \/ \E key \in JobKeys : CreateJob(FewJobs, key)
    \/ \E id \in JobIds, p \in Suffixes : CreateApplication(FewApps, id, p)
    \/ \E id \in JobIds, t \in BOOLEAN : ApplyJob(FewApps, id, CvPdf, t)
    \/ \E p \in Suffixes, lt \in BOOLEAN, gt \in BOOLEAN : ServeResume(p, lt, gt)

SpecStorage == InitStorage /\ [][NextStorage]_vars

\* serve_resume asked by the applicant, by the employer of the job and by
\* an employer of no job, in either configuration, with and without the file
\* in the upload folder, with and without failing stores
NextServe ==
    \/ \E uid \in UserIds : Login(uid)
    \/ Logout
    \/ \E input \in {Ann, Bob, Dan} : CreateUser(MaxUsers, input)
    \/ \E key \in JobKeys : CreateJob(FewJobs, key)
    \/ \E id \in JobIds, p \in Suffixes : CreateApplication(FewApps, id, p)
    \/ \E id \in JobIds, t \in BOOLEAN : ApplyJob(FewApps, id, CvPdf, t)
    \/ \E p \in Suffixes, lt \in BOOLEAN, gt \in BOOLEAN : ServeResume(p, lt, gt)

SpecServe == InitStorage /\ [][NextServe]_vars

\* The ways of creating a user, with deleteUser to free an email again.
NextUsers ==
    \/ \E u \in UserIds : Login(u)
    \/ Logout
    \/ \E p \in Persons : CreateUser(MaxUsers, p)
    \/ \E p \in Persons : Register(MaxUsers, p)
    \/ \E p \in Persons : AdminNewUser(MaxUsers, p)
    \/ \E u \in UserIds : DeleteUser(u)

SpecUsers == Init /\ [][NextUsers]_vars

\* The ways of editing a user.
NextEdit ==
    \/ \E u \in UserIds : Login(u)
    \/ Logout
    \/ \E p \in Persons : CreateUser(MaxUsers, p)
    \/ \E u \in UserIds, e \in UserEdits : UpdateUser(u, e)
    \/ \E u \in UserIds, e \in UserEdits : AdminEditUser(u, e)
    \/ \E e \in UserEdits : Profile(e.username, e.email)

SpecEdit == Init /\ [][NextEdit]_vars

\* updateUser alone in its request and as one of two mutations of a request.
NextBatch ==
    \/ \E p \in {Ann, Bob} : CreateUser(FewUsers, p)
    \/ \E u \in 1 .. FewUsers, e \in UserEdits : UpdateUser(u, e)
    \/ \E u1, u2 \in 1 .. FewUsers, e1, e2 \in UserEdits : UpdateUserTwice(u1, e1, u2, e2)
    \/ \E u \in 1 .. FewUsers : DeleteUser(u)

SpecBatch == Init /\ [][NextBatch]_vars

\* createJob and updateJob by two employers over two tuples.
NextJobs ==
    \/ \E u \in 1 .. FewUsers : Login(u)
    \/ Logout
    \/ \E p \in {Bob, Dan} : CreateUser(FewUsers, p)
    \/ \E k \in TwoJobKeys : CreateJob(MaxJobs, k)
    \/ \E j \in JobIds, k \in TwoJobKeys : UpdateJob(j, k)
    \/ \E j \in JobIds : DeleteJob(j)

SpecJobs == Init /\ [][NextJobs]_vars

\* Two apply_job requests served at the same time.
NextRace ==
    \/ \E u \in 1 .. FewUsers : Login(u)
    \/ Logout
    \/ \E p \in {Ann, Bob} : CreateUser(FewUsers, p)
    \/ \E k \in TwoJobKeys : CreateJob(MaxJobs, k)
    \/ \E w \in Workers, j \in JobIds : ApplyJobChecks(w, j, CvPdf)
    \/ \E w \in Workers : ApplyJobSubmit(MaxApps, w, FALSE)

SpecRace == Init /\ [][NextRace]_vars

\* Two workers serving profile edits of signed-in users; the checks of one
\* request and its write may have another request's steps between them.
\* The edits ask for usernames that no sign-up brings, so a username held
\* twice comes from the edits alone.
ProfileEdits == {[username |-> n, email |-> e] : n \in {"zed", "yan"},
                                                 e \in {"a@x", "b@x"}}

NextProfile ==
    \/ \E u \in 1 .. FewUsers : Login(u)
    \/ Logout
    \/ \E p \in {Ann, Bob} : CreateUser(FewUsers, p)
    \/ \E w \in Workers, e \in ProfileEdits : ProfileChecks(w, e.username, e.email)
    \/ \E w \in Workers : ProfileSubmit(w)

SpecProfile == Init /\ [][NextProfile]_vars

\* Applying with a resume under every configuration of the object storage.
InitUpload == \E cfg \in Configs : Start(cfg, {})

NextUpload ==
    \/ \E u \in 1 .. FewUsers : Login(u)
    \/ Logout
    \/ \E p \in {Ann, Bob} : CreateUser(FewUsers, p)
    \/ \E k \in JobKeys : CreateJob(FewJobs, k)
    \/ \E j \in 1 .. FewJobs, f \in ResumeFiles \cup {NoFile}, t \in BOOLEAN :
           ApplyJob(FewApps, j, f, t)
    \/ \E a \in 1 .. FewApps : DeleteApplication(a)
    \/ \E p \in ResumeSuffixes, t \in BOOLEAN : ServeResume(p, FALSE, t)

SpecUpload == InitUpload /\ [][NextUpload]_vars

\* The contact form served next to sign-ups and sessions.  The request's
\* thread keeps running: each pass of the loop and the redirect are taken.
NextContact ==
    \/ \E u \in 1 .. FewUsers : Login(u)
    \/ Logout
    \/ \E p \in Persons : Register(FewUsers, p)
    \/ ContactSubmit
    \/ \E sent \in BOOLEAN : ContactAttempt(sent)
    \/ ContactRedirect

\* Jobs and applications changed and deleted by their owners and by others.
NextOwners ==
    \/ \E u \in UserIds : Login(u)
    \/ Logout
    \/ \E p \in {Ann, Bob, Cat, Dan} : CreateUser(MaxUsers, p)
    \/ \E k \in JobKeys : CreateJob(FewJobs, k)
    \/ \E j \in 1 .. FewJobs : CreateApplication(FewApps, j, NoPath)
    \/ \E a \in 1 .. FewApps : DeleteApplication(a)
    \/ \E j \in 1 .. FewJobs, k \in TwoJobKeys : UpdateJob(j, k)
    \/ \E j \in 1 .. FewJobs : DeleteJob(j)
    \/ \E j \in 1 .. FewJobs : EmployerDeleteJob(j)

SpecOwners == Init /\ [][NextOwners]_vars

SpecContact ==
    /\ Init
    /\ [][NextContact]_vars
    /\ WF_vars(\E sent \in BOOLEAN : ContactAttempt(sent))
    /\ WF_vars(ContactRedirect)

\* The operations that store an Application's status.
NextStatus ==
    \/ \E u \in UserIds : Login(u)
    \/ Logout
    \/ \E p \in Persons : CreateUser(MaxUsers, p)
    \/ \E k \in JobKeys : CreateJob(FewJobs, k)
    \/ \E j \in JobIds : CreateApplication(FewApps, j, NoPath)
    \/ \E j \in JobIds, f \in {CvPdf, NoFile} : ApplyJob(FewApps, j, f, FALSE)
    \/ \E a \in AppIds, s \in StatusInputs : UpdateApplicationStatus(a, s)
    \/ \E a \in AppIds, s \in StatusInputs : AdminUpdateApplication(a, s)
    \/ \E a \in AppIds, s \in StatusInputs : UpdateApplication(a, s)

SpecStatus == Init /\ [][NextStatus]_vars

\* ------------------------------------------------------------------- claims
\* The role the store holds for the user the session names
ActingRole ==
    IF session.user_id \in DOMAIN users THEN users[session.user_id].role ELSE "none"

Db == <<users, jobs, applications>>

\* The statuses section 4.2 lists for an update
ListedStatuses == {"pending", "reviewed", "rejected", "shortlisted", "hired"}

\* C1: for every stored application and every caller, updateApplicationStatus
\* succeeds iff the requested status is one of pending, reviewed, rejected,
\* shortlisted, hired and the caller is an admin or the poster of the
\* application's job; otherwise the stored status is unchanged and an error
\* is returned.
C1_UpdateStatusIffListedAndAuthorized ==
    [][ (last'.op = "updateApplicationStatus" /\ last'.target \in DOMAIN applications)
        => LET app == applications[last'.target]
               authorized ==
                   \/ ActingRole = "admin"
                   \/ /\ session.user_id \in DOMAIN users
                      /\ app.job_id \in DOMAIN jobs
                      /\ jobs[app.job_id].poster_id = session.user_id
           IN  /\ (last'.res = "ok") <=> (last'.status \in ListedStatuses /\ authorized)
               /\ (last'.res # "ok") => (applications' = applications)
               /\ (last'.res = "ok") =>
                      (applications' = [applications EXCEPT ![last'.target].status = last'.status])
      ]_vars

\* C2: when the (job, applicant) pair of a create (apply_job or
\* createApplication) already has an application, the create is rejected,
\* with a conflict once the caller has passed the login and job_seeker
\* guards, no application is created and no field of the existing one changes.
C2_DuplicateApplicationRejected ==
    [][ \A i \in DOMAIN applications :
          ( /\ last'.op \in {"createApplication", "apply_job"}
            /\ applications[i].job_id = last'.target
            /\ applications[i].applicant_id = session.user_id )
          => /\ last'.res # "ok"
             /\ applications' = applications
             /\ (last'.op = "createApplication" /\ ActingRole = "job_seeker")
                    => last'.res = "conflict"
             /\ (last'.op = "apply_job" /\ session.role = "job_seeker")
                    => last'.res = "conflict"
      ]_vars

\* A second apply_job for the same pair was answered with the conflict while
\* the first application had already been reviewed.
C2_Witness ==
    /\ last.op = "apply_job"
    /\ last.res = "conflict"
    /\ \E i \in DOMAIN applications :
          /\ applications[i].job_id = last.target
          /\ applications[i].applicant_id = session.user_id
          /\ applications[i].status = "reviewed"

\* C6: every delete-user operation whose target is the acting admin's own id
\* is rejected as an invalid operation and the admin's account stays in the
\* store.
C6_AdminNeverDeletesSelf ==
    [][ ( /\ last'.op \in {"deleteUser", "admin_delete_user"}
          /\ last'.target = session.user_id
          /\ ActingRole = "admin" )
        => /\ last'.res = "invalid_operation"
           /\ session.user_id \in DOMAIN users'
      ]_vars

\* The operations that change users, jobs or applications, self-registration
\* (register, createUser) left out
GuardedMutations ==
    {"createJob", "updateJob", "deleteJob", "createApplication",
     "updateApplicationStatus", "deleteApplication", "updateUser", "deleteUser",
     "profile", "admin_new_user", "admin_edit_user", "admin_delete_user",
     "admin_create_job", "admin_edit_job", "admin_delete_job",
     "admin_update_application", "new_job", "delete_job", "update_application",
     "apply_job"}

\* C7: every mutating operation other than self-registration, invoked with no
\* principal in the session, fails with an authentication error and leaves
\* users, jobs and applications unchanged.
C7_UnauthenticatedMutationFails ==
    [][ (session.user_id = 0 /\ last'.op \in GuardedMutations)
        => /\ last'.res \in {"unauthenticated", "login_redirect"}
           /\ Db' = Db
      ]_vars

CreateApplicationOps == {"createApplication", "apply_job"}
CreateJobOps == {"createJob", "new_job"}
AdminRouteOps ==
    {"admin_new_user", "admin_edit_user", "admin_delete_user", "admin_create_job",
     "admin_edit_job", "admin_delete_job", "admin_applications",
     "admin_update_application"}

\* C8: a role-restricted operation rejects every principal whose role is
\* outside the allowed set and changes nothing: creating an application needs
\* role job_seeker, creating a job role employer or admin, every /admin route
\* role admin.
C8_RoleRestrictedRejects ==
    [][ ( \/ last'.op \in CreateApplicationOps /\ ActingRole # "job_seeker"
          \/ last'.op \in CreateJobOps /\ ActingRole \notin {"employer", "admin"}
          \/ last'.op \in AdminRouteOps /\ ActingRole # "admin" )
        => /\ last'.res # "ok"
           /\ Db' = Db
      ]_vars

\* Who the spec lets see the resume of application app
MayServe(app) ==
    \/ session.role = "admin"
    \/ /\ session.role = "employer"
       /\ app.job_id \in DOMAIN jobs
       /\ jobs[app.job_id].poster_id = session.user_id
    \/ /\ session.role = "job_seeker"
       /\ app.applicant_id = session.user_id

\* C3: for a signed-in principal and a path whose object the bucket holds,
\* serve_resume answers 200 to an admin, to the employer who posted the job
\* of an application with that path and to the applicant of such an
\* application, 403 to every other principal, and 404 when no application
\* has the path.
C3_ServeResumeAccess ==
    [][ (last'.op = "serve_resume" /\ session.user_id # 0)
        => LET hits == {i \in DOMAIN applications :
                            applications[i].resume_path = last'.path}
           IN  /\ (hits = {}) => (last'.res = "404")
               /\ (\E i \in hits : MayServe(applications[i])) => (last'.res = "200")
               /\ (hits # {} /\ \A i \in hits : ~MayServe(applications[i]))
                      => (last'.res = "403")
      ]_vars

\* C4: for an authorized serve_resume request, a file under the upload root
\* is served from local disk without contacting object storage; a file
\* absent locally that object storage holds is served from there; a file
\* absent in both, or absent locally with object storage disabled, gives
\* 404; 500 is answered only when the object-storage fetch throws.
C4_ServeResumeStorage ==
    [][ ( /\ last'.op = "serve_resume"
          /\ session.user_id # 0
          /\ FirstByResumePath(last'.path) # 0
          /\ ResumeAccess(session, applications[FirstByResumePath(last'.path)]) )
        => LET local == last'.path \in localFiles
               stored == HasBucket(config) /\ (<<"resumes">> \o last'.path) \in gcsObjects
           IN  /\ (local /\ "local" \notin last'.fault)
                      => (last'.res = "200" /\ last'.io = "local")
               /\ (~local /\ stored /\ "gcs" \notin last'.fault)
                      => (last'.res = "200" /\ last'.io = "gcs")
               /\ (~local /\ ~stored /\ "gcs" \notin last'.fault) => (last'.res = "404")
               /\ (last'.res = "500") => ("gcs" \in last'.fault)
      ]_vars

\* C5: jobApplications, application(id) and the employer job_applications
\* route return no application of a job to a signed-in principal who is
\* neither an admin nor the poster of that job (nor the applicant, who reads
\* the application as their own).
C5_ApplicationsOnlyToAdminOrPoster ==
    [][ (last'.op \in {"jobApplications", "application", "job_applications"}
            /\ session.user_id # 0)
        => \A i \in last'.ret :
              \/ session.role = "admin"
              \/ ActingRole = "admin"
              \/ /\ applications[i].job_id \in DOMAIN jobs
                 /\ jobs[applications[i].job_id].poster_id = session.user_id
              \/ applications[i].applicant_id = session.user_id
      ]_vars

DeleteJobOps == {"deleteJob", "delete_job", "admin_delete_job"}

\* C9: a successful delete of a job (deleteJob, the employer and the admin
\* delete routes) removes the job and, in the same step, every application
\* that references it; applications of other jobs stay as they were.
C9_DeleteJobCascades ==
    [][ (last'.op \in DeleteJobOps /\ last'.res = "ok")
        => /\ last'.target \notin DOMAIN jobs'
           /\ \A i \in DOMAIN applications' : applications'[i].job_id # last'.target
           /\ DOMAIN applications' \subseteq DOMAIN applications
           /\ \A i \in DOMAIN applications :
                  applications[i].job_id # last'.target
                      => (i \in DOMAIN applications' /\ applications'[i] = applications[i])
      ]_vars

\* deleteJob took an application with it and left the other job's application
C9_Witness ==
    /\ last.op = "deleteJob"
    /\ last.res = "ok"
    /\ last.gone.applications # {}
    /\ DOMAIN applications # {}

DeleteUserOps == {"deleteUser", "admin_delete_user"}

\* C10: a successful delete of a user removes the user, every job the user
\* posted, every application the user submitted and every application on
\* those jobs; afterwards no job or application references the deleted user
\* or a deleted job, and all other rows are as they were.
C10_DeleteUserCascades ==
    [][ (last'.op \in DeleteUserOps /\ last'.res = "ok")
        => LET u == last'.target
               posted == {j \in DOMAIN jobs : jobs[j].poster_id = u}
           IN  /\ u \notin DOMAIN users'
               /\ \A j \in DOMAIN jobs' : jobs'[j].poster_id # u
               /\ \A i \in DOMAIN applications' :
                      /\ applications'[i].applicant_id # u
                      /\ applications'[i].job_id \notin posted
                      /\ applications'[i].job_id \in DOMAIN jobs'
               /\ \A j \in DOMAIN jobs \ posted : j \in DOMAIN jobs' /\ jobs'[j] = jobs[j]
               /\ \A i \in DOMAIN applications :
                      (applications[i].applicant_id # u /\ applications[i].job_id \notin posted)
                          => (i \in DOMAIN applications' /\ applications'[i] = applications[i])
               /\ \A v \in DOMAIN users \ {u} : v \in DOMAIN users' /\ users'[v] = users[v]
      ]_vars

\* deleteUser took a job of the user and two applications with it
C10_Witness ==
    /\ last.op = "deleteUser"
    /\ last.res = "ok"
    /\ last.gone.jobs # {}
    /\ Cardinality(last.gone.applications) = 2

\* ------------------------------------------------------------------- C11
CreateUserOps == {"createUser", "register", "admin_new_user"}

\* The request got past the guards of its route: register is for visitors and
\* offers two roles, admin_new_user is behind the admin decorators.
PastCreateGuards ==
    CASE last'.op = "register" ->
            session.user_id = 0 /\ last'.input.role \in {"job_seeker", "employer"}
      [] last'.op = "admin_new_user" -> session.role = "admin"
      [] OTHER -> TRUE

\* C11: a create-user request whose email is stored for some user adds no user
\* and, once past the guards of its route, answers with a conflict; one whose
\* email is not stored succeeds and adds exactly one user, with that email.
C11_DuplicateEmailRejected ==
    [][ last'.op \in CreateUserOps
        => LET stored == \E i \in DOMAIN users : users[i].email = last'.input.email
               new == NextId(users)
           IN  /\ stored => (last'.res # "ok" /\ users' = users)
               /\ (stored /\ PastCreateGuards) => last'.res = "conflict"
               /\ (~stored /\ PastCreateGuards)
                     => /\ last'.res = "ok"
                        /\ DOMAIN users' = DOMAIN users \cup {new}
                        /\ new \notin DOMAIN users
                        /\ users'[new].email = last'.input.email
                        /\ \A i \in DOMAIN users : users'[i] = users[i]
               /\ last'.res # "ok" => users' = users ]_vars

\* Some create-user request was refused for its email while the table still
\* has room for the create that follows.
C11_Witness ==
    /\ last.op \in CreateUserOps
    /\ last.res = "conflict"
    /\ \E i \in DOMAIN users : users[i].email = last.input.email
    /\ \E p \in Persons : \A i \in DOMAIN users : users[i].email # p.email

\* ------------------------------------------------------------------- C12
EditUserOps == {"updateUser", "profile", "admin_edit_user"}

\* The edit reached a stored user: profile edits the signed-in user,
\* admin_edit_user is behind the admin decorators.
PastEditGuards ==
    /\ last'.target \in DOMAIN users
    /\ last'.op = "admin_edit_user" => session.role = "admin"

\* C12: an edit whose email or whose username is used by a different user
\* answers with a conflict and changes nothing; an edit that keeps the user's
\* own email and username is not a conflict.
C12_EditConflict ==
    [][ (last'.op \in EditUserOps /\ PastEditGuards)
        => LET id == last'.target
               emailTaken == \E i \in DOMAIN users \ {id} :
                                 users[i].email = last'.input.email
               nameTaken == \E i \in DOMAIN users \ {id} :
                                users[i].username = last'.input.username
           IN  /\ (emailTaken \/ nameTaken) => (last'.res = "conflict" /\ users' = users)
               /\ (last'.input.email = users[id].email
                     /\ last'.input.username = users[id].username)
                       => last'.res # "conflict" ]_vars

\* ------------------------------------------------------------------- C13
UpdateStatusOps == {"updateApplicationStatus", "admin_update_application", "update_application"}

\* C13: after every step the status of every stored Application is one of
\* applied, pending, reviewed, rejected, shortlisted, hired, and that of an
\* Application the step created is applied.
C13_StatusInModelStatuses ==
    [][ /\ \A i \in DOMAIN applications' : applications'[i].status \in ModelStatuses
        /\ \A i \in DOMAIN applications' \ DOMAIN applications :
               applications'[i].status = "applied" ]_vars

\* An update asked for a status outside the set, on an application its sender
\* may update, after another update had been stored.
C13_Witness ==
    /\ last.op \in UpdateStatusOps
    /\ last.status \notin ModelStatuses
    /\ last.res = "invalid_status"
    /\ last.target \in DOMAIN applications
    /\ applications[last.target].status # "applied"

\* ------------------------------------------------------------------- C14
\* C14: every Application's job id names a stored Job and its applicant id
\* names a stored User whose role is job_seeker.
C14_ApplicationRefersToJobAndSeeker ==
    \A i \in DOMAIN applications :
        /\ applications[i].job_id \in DOMAIN jobs
        /\ applications[i].applicant_id \in DOMAIN users
        /\ users[applications[i].applicant_id].role = "job_seeker"

\* ------------------------------------------------------------------- C15
\* C15: every Job's poster id names a stored User whose role is employer or
\* admin.
C15_JobRefersToEmployerOrAdmin ==
    \A j \in DOMAIN jobs :
        /\ jobs[j].poster_id \in DOMAIN users
        /\ users[jobs[j].poster_id].role \in {"employer", "admin"}

\* ------------------------------------------------------------------- C16
\* C16: when updateUser is rejected because its email belongs to a different
\* user, the stored row of its target is unchanged after the request, also
\* when a later mutation of the same request, on another user, commits.
C16_RejectedUpdateLeavesTarget ==
    [][ ( /\ last'.op = "updateUser"
          /\ last'.res = "conflict"
          /\ \A k \in DOMAIN last'.more : last'.more[k].target # last'.target )
        => /\ last'.target \in DOMAIN users'
           /\ users'[last'.target] = users[last'.target] ]_vars

\* ------------------------------------------------------------------- C17
\* The stored jobs, other than job id, that hold the tuple (key, poster)
SameTuple(id, key, poster) ==
    {j \in DOMAIN jobs \ {id} : jobs[j].key = key /\ jobs[j].poster_id = poster}

\* C17: a createJob whose (title, company, poster, location) is that of a
\* stored job, and an updateJob that would give its job the tuple of another
\* stored job, answer with the error of the failed commit and leave the
\* stored jobs as they were; without such a job the authorized mutation
\* succeeds.
C17_DuplicateJobRejected ==
    [][ /\ (last'.op = "createJob" /\ ActingRole \in {"employer", "admin"})
            => IF SameTuple(0, last'.key, session.user_id) # {}
               THEN last'.res = "db_error" /\ jobs' = jobs
               ELSE last'.res = "ok" /\ Cardinality(DOMAIN jobs') = Cardinality(DOMAIN jobs) + 1
        /\ ( /\ last'.op = "updateJob"
              /\ last'.target \in DOMAIN jobs
              /\ \/ ActingRole = "admin"
                 \/ ActingRole # "none" /\ jobs[last'.target].poster_id = session.user_id )
            => IF SameTuple(last'.target, last'.key, jobs[last'.target].poster_id) # {}
               THEN last'.res = "db_error" /\ jobs' = jobs
               ELSE last'.res = "ok" /\ jobs' = [jobs EXCEPT ![last'.target].key = last'.key]
      ]_vars

\* An updateJob failed at commit while its poster has two jobs, after a
\* createJob could fail the same way.
C17_Witness ==
    /\ last.op = "updateJob"
    /\ last.res = "db_error"
    /\ last.target \in DOMAIN jobs
    /\ SameTuple(last.target, last.key, jobs[last.target].poster_id) # {}

\* ------------------------------------------------------------------- C18
\* C18: however the checks and the commits of two apply_job requests are
\* interleaved, no two stored Applications have the same (job, applicant);
\* a request that commits while an Application for its pair is stored is
\* rolled back with an error, and one that commits without such a row adds
\* exactly one.
C18_OneApplicationPerPair ==
    [][ /\ ApplicationUnique(applications')
        /\ \A w \in Workers :
              (workers[w].pc = "valid" /\ workers'[w].pc = "idle")
              => LET mine(a) == {i \in DOMAIN a :
                                   /\ a[i].job_id = workers[w].job_id
                                   /\ a[i].applicant_id = workers[w].applicant_id}
                 IN  IF mine(applications) # {}
                     THEN last'.res = "db_error" /\ applications' = applications
                     ELSE last'.res = "ok" /\ Cardinality(mine(applications')) = 1
      ]_vars

\* Both requests passed their checks before either commit, and the second
\* commit was rolled back.
C18_Witness ==
    /\ last.op = "apply_job"
    /\ last.res = "db_error"
    /\ \A w \in Workers : workers[w].pc = "idle"
    /\ \E i \in DOMAIN applications : applications[i].job_id = last.target

\* ------------------------------------------------------------------- C19
\* A job seeker who has not applied to the job posts the form with a resume
\* file the form accepts.
AppliesWithResume ==
    /\ last'.op = "apply_job"
    /\ session.role = "job_seeker"
    /\ last'.target \in DOMAIN jobs
    /\ \A i \in DOMAIN applications :
           ~(applications[i].job_id = last'.target
               /\ applications[i].applicant_id = session.user_id)
    /\ last'.file # NoFile
    /\ Lower(last'.file.ext) \in AllowedResumeExtensions

\* C19: applying with a resume while the object storage is switched off or
\* has no bucket succeeds and adds exactly one Application, for the (job,
\* applicant) pair, with status applied and no resume path.
C19_ApplyWithoutStorage ==
    [][ (AppliesWithResume /\ (~config.ENABLE_GCS_UPLOAD \/ config.GCS_BUCKET_NAME = ""))
        => /\ last'.res = "ok"
           /\ \E i \in DOMAIN applications' \ DOMAIN applications :
                 /\ DOMAIN applications' = DOMAIN applications \cup {i}
                 /\ applications'[i] = [job_id |-> last'.target,
                                        applicant_id |-> session.user_id,
                                        status |-> "applied", resume_path |-> NoPath]
           /\ \A i \in DOMAIN applications : applications'[i] = applications[i]
           /\ gcsObjects' = gcsObjects ]_vars

\* The storage is switched on without a bucket and an application with a
\* resume was stored.
C19_Witness ==
    /\ config.ENABLE_GCS_UPLOAD /\ config.GCS_BUCKET_NAME = ""
    /\ last.op = "apply_job"
    /\ last.file # NoFile
    /\ last.res = "ok"
    /\ \E i \in DOMAIN applications : applications[i].resume_path = NoPath

ContactSafe ==
    /\ Len(contact.sends) <= max_retries
    /\ \A k \in 1 .. Len(contact.sends) - 1 : ~contact.sends[k]
    /\ contact.pc = "redirect"
         => /\ Len(contact.sends) >= 1
            /\ contact.flash \in {"success", "danger"}
            /\ contact.flash = "success" <=> \E k \in DOMAIN contact.sends : contact.sends[k]
            /\ contact.flash = "danger"
                  <=> /\ Len(contact.sends) = max_retries
                      /\ \A k \in DOMAIN contact.sends : ~contact.sends[k]

\* C21: for one valid contact submission mail.send is called at least once
\* and at most 3 times, never after a call that succeeded; success is flashed
\* iff some call succeeded, failure iff all 3 failed; and the request is
\* always answered.
C21_ContactRetries ==
    /\ []ContactSafe
    /\ (contact.pc = "loop") ~> (contact.pc = "redirect")
    /\ (contact.pc = "redirect") ~> (contact.pc = "idle")

\* The third call was the one that succeeded.
C21_Witness ==
    /\ contact.pc = "redirect"
    /\ contact.sends = <<FALSE, FALSE, TRUE>>
    /\ contact.flash = "success"

\* ------------------------------------------------------------------- C22
\* C22: no step gives the status applied to an Application whose status was
\* another one: an update never stores applied.
C22_NeverAppliedAgain ==
    [][ \A i \in DOMAIN applications \cap DOMAIN applications' :
            applications[i].status # "applied" => applications'[i].status # "applied" ]_vars

\* ------------------------------------------------------------------- C23
\* The signed-in user may update the Application: an admin, or the poster of
\* its job; on the routes the session holds that same role.
MayUpdate(app) ==
    /\ \/ ActingRole = "admin"
       \/ /\ ActingRole # "none"
          /\ app.job_id \in DOMAIN jobs
          /\ jobs[app.job_id].poster_id = session.user_id
    /\ last'.op = "admin_update_application" => (session.role = "admin" /\ ActingRole = "admin")
    /\ last'.op = "update_application"
         => (session.role = ActingRole /\ ActingRole \in {"employer", "admin"})

\* C23: an authorized update to a value of the valid set succeeds from every
\* stored status and stores exactly that value; an update to any other value
\* is rejected and the stored status stays.
C23_ValidateThenSet ==
    [][ ( /\ last'.op \in UpdateStatusOps
          /\ last'.target \in DOMAIN applications
          /\ MayUpdate(applications[last'.target]) )
        => IF last'.status \in ListedStatuses
           THEN /\ last'.res = "ok"
                /\ applications' = [applications EXCEPT ![last'.target].status = last'.status]
           ELSE /\ last'.res # "ok"
                /\ applications' = applications ]_vars

\* ------------------------------------------------------------------- C24
\* The signed-in user is stored and is an admin, the applicant of the
\* Application or the poster of its job.
MayDeleteApplication(app) ==
    /\ ActingRole # "none"
    /\ \/ ActingRole = "admin"
       \/ app.applicant_id = session.user_id
       \/ app.job_id \in DOMAIN jobs /\ jobs[app.job_id].poster_id = session.user_id

\* C24: deleteApplication removes the Application, and nothing else, when
\* the caller is an admin, its applicant or the poster of its job; for every
\* other caller it answers with an error and the store is unchanged.
C24_DeleteApplicationByOwners ==
    [][ last'.op = "deleteApplication"
        => IF last'.target \in DOMAIN applications
              /\ MayDeleteApplication(applications[last'.target])
           THEN /\ last'.res = "ok"
                /\ applications' = Remove(applications, {last'.target})
                /\ users' = users /\ jobs' = jobs
           ELSE /\ last'.res # "ok"
                /\ Db' = Db ]_vars

\* A signed-in user who is neither admin, applicant nor poster was refused.
C24_Witness ==
    /\ last.op = "deleteApplication"
    /\ last.res = "forbidden"
    /\ last.target \in DOMAIN applications
    /\ ActingRole \in {"employer", "job_seeker"}

\* ------------------------------------------------------------------- C25
ChangeJobOps == {"updateJob", "deleteJob", "delete_job"}

\* The answers that refuse the caller
AuthorizationErrors == {"unauthenticated", "login_redirect", "forbidden_role", "forbidden"}

\* C25: updateJob, deleteJob and the employer delete_job route, asked by a
\* caller who is neither an admin nor the poster of the target job, answer
\* with an authorization error and leave the job, its applications and the
\* rest of the store unchanged.
C25_ChangeJobByOwners ==
    [][ ( /\ last'.op \in ChangeJobOps
          /\ last'.target \in DOMAIN jobs
          /\ ActingRole # "admin"
          /\ ~(ActingRole # "none" /\ jobs[last'.target].poster_id = session.user_id) )
        => /\ last'.res \in AuthorizationErrors
           /\ Db' = Db ]_vars

\* An employer who did not post the job was refused its update.
C25_Witness ==
    /\ last.op = "updateJob"
    /\ last.res = "forbidden"
    /\ last.target \in DOMAIN jobs
    /\ ActingRole = "employer"
    /\ jobs[last.target].poster_id # session.user_id

\* ------------------------------------------------------------------- C26
\* C26: with the object storage enabled, an apply_job whose upload fails,
\* because the storage client raises or the extension is not allowed, stores
\* no Application and no object; past the checks of the route it answers with
\* the failed upload, or with the invalid form for the extension.
C26_FailedUploadStoresNothing ==
    [][ ( /\ last'.op = "apply_job"
          /\ HasBucket(config)
          /\ last'.file # NoFile
          /\ \/ "gcs" \in last'.fault
             \/ Lower(last'.file.ext) \notin AllowedResumeExtensions )
        => /\ last'.res # "ok"
           /\ applications' = applications
           /\ gcsObjects' = gcsObjects
           /\ ( /\ session.role = "job_seeker"
                /\ last'.target \in DOMAIN jobs
                /\ \A i \in DOMAIN applications :
                       ~(applications[i].job_id = last'.target
                           /\ applications[i].applicant_id = session.user_id) )
                => last'.res = IF Lower(last'.file.ext) \in AllowedResumeExtensions
                               THEN "upload_failed" ELSE "invalid_form" ]_vars

\* The storage client raised during an upload.
C26_Witness ==
    /\ last.op = "apply_job"
    /\ HasBucket(config)
    /\ "gcs" \in last.fault
    /\ last.res = "upload_failed"

\* ------------------------------------------------------------------- C27
\* C27: no two stored Applications have the same resume path, unless it is
\* null.
C27_ResumePathsDistinct ==
    \A x, y \in DOMAIN applications :
        (applications[x].resume_path # NoPath
            /\ applications[x].resume_path = applications[y].resume_path) => x = y

\* ------------------------------------------------------------------- C28
\* C28: a session that holds a user id holds the id of a stored user and
\* that user's stored role.
C28_SessionRoleIsStoredRole ==
    session.user_id # 0
        => /\ session.user_id \in DOMAIN users
           /\ session.role = users[session.user_id].role

\* ------------------------------------------------------------------- C29
\* C29: serve_resume checks the login, then looks the Application up by the
\* path, then checks the access, and only then touches a store: a request
\* without a session is redirected whatever the path, an unknown path is a
\* 404 whoever asks, a refused user gets 403 whatever the stores hold, none
\* of the three reads a local file or calls the object storage, and the
\* object storage is called only after the local file was not served.
C29_ServeResumeOrder ==
    [][ last'.op = "serve_resume"
        => LET hits == {i \in DOMAIN applications :
                           applications[i].resume_path = last'.path}
               granted == /\ session.user_id # 0
                          /\ hits # {}
                          /\ ResumeAccess(session, applications[Min(hits)])
           IN  /\ session.user_id = 0
                    => (last'.res = "login_redirect" /\ last'.io = "none")
               /\ (session.user_id # 0 /\ hits = {})
                    => (last'.res = "404" /\ last'.io = "none")
               /\ (session.user_id # 0 /\ hits # {} /\ ~granted)
                    => (last'.res = "403" /\ last'.io = "none")
               /\ last'.io # "none" => granted
               /\ last'.io = "gcs"
                    => (last'.path \notin localFiles \/ "local" \in last'.fault) ]_vars

\* A user without access was refused a path whose file lies in the upload
\* folder.
C29_Witness ==
    /\ last.op = "serve_resume"
    /\ last.res = "403"
    /\ last.io = "none"
    /\ last.path \in localFiles

\* ------------------------------------------------------------------- C30
\* C30: however two profile edits of different users that ask for the same
\* new username interleave, an edit that passed the username check and is
\* committed leaves its user the only holder of that username.
C30_ProfileUsernameTakenOnce ==
    [][ (/\ last'.op = "profile"
         /\ last'.res = "ok"
         /\ last'.target \in DOMAIN users
         /\ users[last'.target].username # last'.input.username)
        => \A i \in DOMAIN users' :
               users'[i].username = last'.input.username => i = last'.target ]_vars

====
